---------------------------- MODULE Spec2Model ----------------------------
(***************************************************************************)
(* A model of the symptom matcher of app.py: normalize_text,               *)
(* jaccard_similarity, difflib.SequenceMatcher.ratio as find_best_match    *)
(* uses it, find_best_match itself, read_symptom_csv and the two host      *)
(* flows run_cli_mode and run_streamlit_mode.                              *)
(*                                                                         *)
(* A Python str is a sequence of one-character strings.  Python's None is  *)
(* the value None below.  A float score is an exact rational <<n, d>> in   *)
(* lowest terms with d > 0; the literals 0.15, 0.9 and 0.8 are 3/20, 9/10  *)
(* and 4/5.                                                                *)
(***************************************************************************)
EXTENDS Integers, Sequences, FiniteSets, TLC

VARIABLES
    host,        \* which caller runs: "norm", "direct", "append", "cli", "streamlit"
    hpc,         \* the caller's position
    text,        \* the caller's text: the argument of normalize_text, the
                 \* query/text of run_cli_mode, the input_text of run_streamlit_mode
    out,         \* normalize_text: the results of the successive calls
    user_text,   \* find_best_match: parameter user_text
    rows,        \* find_best_match: parameter rows (the loaded table)
    min_score,   \* find_best_match: parameter min_score
    mpc,         \* find_best_match: position ("idle", "loop", "done")
    ut,          \* find_best_match: local ut
    idx,         \* find_best_match: number of rows the for loop has consumed
    scores,      \* find_best_match: the local score of each row consumed (None: skipped)
    best,        \* find_best_match: local best, a row index, 0 for None
    best_score,  \* find_best_match: local best_score
    ret,         \* find_best_match: the returned pair, None before the return
    prev,        \* the caller's record of the previous call: [scores, appended]
    env,         \* the collaborators: csv, sr, translator, gtts, button
    shown        \* what the host flow displayed, in order

vars == <<host, hpc, text, out, user_text, rows, min_score, mpc, ut, idx,
          scores, best, best_score, ret, prev, env, shown>>

None == <<"None">>

\* ---------------------------------------------------------------- characters

LowerLetters == <<"a","b","c","d","e","f","g","h","i","j","k","l","m",
                  "n","o","p","q","r","s","t","u","v","w","x","y","z">>

UpperLetters == <<"A","B","C","D","E","F","G","H","I","J","K","L","M",
                  "N","O","P","Q","R","S","T","U","V","W","X","Y","Z">>

Digits == {"0","1","2","3","4","5","6","7","8","9"}

\* The characters the pattern \s matches (of the ASCII range: space, tab,
\* newline, carriage return, form feed).
Whitespace == {" ", "\t", "\n", "\r", "\f"}

Range(s) == {s[k] : k \in 1..Len(s)}

\* str.lower() on one character.
LowerChar(c) ==
    IF \E k \in 1..26 : UpperLetters[k] = c
    THEN LowerLetters[CHOOSE k \in 1..26 : UpperLetters[k] = c]
    ELSE c

Lower(s) == [k \in 1..Len(s) |-> LowerChar(s[k])]

\* re.sub(r"[^a-z0-9\s]", " ", s)
SubNonAlnum(s) ==
    [k \in 1..Len(s) |->
        IF s[k] \in Range(LowerLetters) \cup Digits \cup Whitespace
        THEN s[k] ELSE " "]

\* re.sub(r"\s+", " ", s): each maximal run of whitespace becomes one space.
RECURSIVE CollapseWs(_)
CollapseWs(s) ==
    IF s = <<>> THEN <<>>
    ELSE IF Head(s) \in Whitespace
         THEN IF Len(s) > 1 /\ s[2] \in Whitespace
              THEN CollapseWs(Tail(s))
              ELSE <<" ">> \o CollapseWs(Tail(s))
         ELSE <<Head(s)>> \o CollapseWs(Tail(s))

RECURSIVE LStrip(_)
LStrip(s) ==
    IF s # <<>> /\ Head(s) \in Whitespace THEN LStrip(Tail(s)) ELSE s

RECURSIVE RStrip(_)
RStrip(s) ==
    IF s # <<>> /\ s[Len(s)] \in Whitespace
    THEN RStrip(SubSeq(s, 1, Len(s) - 1)) ELSE s

\* str.strip()
Strip(s) == RStrip(LStrip(s))

\* normalize_text without the final strip().
NormalizeNoStrip(t) ==
    LET s == IF t = None \/ t = <<>> THEN <<>> ELSE t
    IN  CollapseWs(SubNonAlnum(Lower(s)))

\* normalize_text with its two substitutions in the other order.
NormalizeSwapped(t) ==
    LET s == IF t = None \/ t = <<>> THEN <<>> ELSE t
    IN  Strip(SubNonAlnum(CollapseWs(Lower(s))))

\* Lines 104-108.

normalize_text(t) ==
    LET s == IF t = None \/ t = <<>> THEN <<>> ELSE t
    IN  Strip(CollapseWs(SubNonAlnum(Lower(s))))

\* str.split(): the maximal runs of non-whitespace characters, in order.
RECURSIVE SplitFrom(_, _)
SplitFrom(s, cur) ==
    IF s = <<>> THEN (IF cur = <<>> THEN <<>> ELSE <<cur>>)
    ELSE IF Head(s) \in Whitespace
         THEN (IF cur = <<>> THEN <<>> ELSE <<cur>>) \o SplitFrom(Tail(s), <<>>)
         ELSE SplitFrom(Tail(s), Append(cur, Head(s)))

Split(s) == SplitFrom(s, <<>>)

\* set(s.split())
Tokens(s) == Range(Split(s))

\* sub in s
Contains(s, sub) ==
    \E k \in 0..(Len(s) - Len(sub)) :
        \A m \in 1..Len(sub) : s[k + m] = sub[m]

\* ---------------------------------------------------------------- rationals

RECURSIVE Gcd(_, _)
Gcd(a, b) == IF b = 0 THEN a ELSE Gcd(b, a % b)

Abs(n) == IF n < 0 THEN -n ELSE n

\* n/d in lowest terms, d > 0.
Rat(n, d) ==
    LET g == Gcd(Abs(n), d)
    IN  <<n \div g, d \div g>>

RLt(x, y) == x[1] * y[2] < y[1] * x[2]
RLe(x, y) == x[1] * y[2] <= y[1] * x[2]
RMax(x, y) == IF RLt(x, y) THEN y ELSE x
RMul(x, y) == Rat(x[1] * y[1], x[2] * y[2])
RAdd(x, y) == Rat(x[1] * y[2] + y[1] * x[2], x[2] * y[2])

Zero == <<0, 1>>
One == <<1, 1>>

\* The default of the parameter min_score, 0.15.
DefaultMinScore == <<3, 20>>
\* The substring floor 0.9 and the discount 0.8 of find_best_match.
SubstringFloor == <<9, 10>>
SeqDiscount == <<4, 5>>

\* ------------------------------------------------------------- similarities

\* Lines 111-115.
jaccard_similarity(a, b) ==
    LET sa == Tokens(a)
        sb == Tokens(b)
    IN  IF sa = {} \/ sb = {} THEN Zero
        ELSE Rat(Cardinality(sa \cap sb), Cardinality(sa \cup sb))

\* The length of the common run a[i:], b[j:] inside a[:ahi], b[:bhi]
\* (indices as in Python: from 0, the upper ends excluded).
RECURSIVE RunLen(_, _, _, _, _, _)
RunLen(a, b, i, j, ahi, bhi) ==
    IF i < ahi /\ j < bhi /\ a[i + 1] = b[j + 1]
    THEN 1 + RunLen(a, b, i + 1, j + 1, ahi, bhi)
    ELSE 0

SetMax(S) == CHOOSE x \in S : \A y \in S : y <= x
SetMin(S) == CHOOSE x \in S : \A y \in S : x <= y

\* SequenceMatcher.find_longest_match without junk: <<i, j, k>>, the longest
\* block a[i:i+k] == b[j:j+k] in the window, of those the one starting
\* earliest in a, of those the one starting earliest in b; <<alo, blo, 0>>
\* when nothing matches.
find_longest_match(a, b, alo, ahi, blo, bhi) ==
    LET pairs == (alo..(ahi - 1)) \X (blo..(bhi - 1))
        k(p) == RunLen(a, b, p[1], p[2], ahi, bhi)
        kmax == IF pairs = {} THEN 0 ELSE SetMax({k(p) : p \in pairs})
    IN  IF kmax = 0 THEN <<alo, blo, 0>>
        ELSE LET longest == {p \in pairs : k(p) = kmax}
                 i == SetMin({p[1] : p \in longest})
                 j == SetMin({p[2] : p \in {q \in longest : q[1] = i}})
             IN  <<i, j, kmax>>

\* The sum of the sizes of SequenceMatcher.get_matching_blocks(): the longest
\* block, then the same to its left and to its right.
RECURSIVE MatchTotal(_, _, _, _, _, _)
MatchTotal(a, b, alo, ahi, blo, bhi) ==
    LET m == find_longest_match(a, b, alo, ahi, blo, bhi)
        i == m[1]
        j == m[2]
        k == m[3]
    IN  IF k = 0 THEN 0
        ELSE k
             + (IF alo < i /\ blo < j
                THEN MatchTotal(a, b, alo, i, blo, j) ELSE 0)
             + (IF i + k < ahi /\ j + k < bhi
                THEN MatchTotal(a, b, i + k, ahi, j + k, bhi) ELSE 0)

\* difflib.SequenceMatcher(None, a, b).ratio(), for len(b) < 200 (below the
\* length at which difflib's automatic junk heuristic starts).
SequenceRatio(a, b) ==
    LET length == Len(a) + Len(b)
    IN  IF length = 0 THEN One
        ELSE Rat(2 * MatchTotal(a, b, 0, Len(a), 0, Len(b)), length)

\* ------------------------------------------------------------------ records

\* One row of read_symptom_csv: the stripped symptom cell and its cached
\* normalization (a missing or empty cell is the empty string).  The five
\* other fields take no part in the match.
LoadRow(cell) ==
    LET symptom == IF cell = None \/ cell = <<>> THEN <<>> ELSE Strip(cell)
    IN  [symptom |-> symptom, symptom_norm |-> normalize_text(symptom)]

\* read_symptom_csv: no file, no rows; else one row per line of the file.
read_symptom_csv(exists, cells) ==
    IF ~exists THEN <<>>
    ELSE [k \in 1..Len(cells) |-> LoadRow(cells[k])]

\* TestSymptomMatching.rows: the three-record table of the tests.
TestRows ==
    << [symptom      |-> <<"h","e","a","d","a","c","h","e">>,
        symptom_norm |-> <<"h","e","a","d","a","c","h","e">>],
       [symptom      |-> <<"s","t","o","m","a","c","h"," ","p","a","i","n">>,
        symptom_norm |-> <<"s","t","o","m","a","c","h"," ","p","a","i","n">>],
       [symptom      |-> <<"f","e","v","e","r">>,
        symptom_norm |-> <<"f","e","v","e","r">> ] >>

\* ------------------------------------------------------------ find_best_match

\* Score with the substring bonus added to the fraction.
ScoreBonusAdded(q, symptom) ==
    LET symptom_tokens == Tokens(symptom)
        ut_tokens == Tokens(q)
        common == symptom_tokens \cap ut_tokens
        n == Cardinality(symptom_tokens)
    IN  IF common # {}
        THEN LET frac == Rat(Cardinality(common), IF n < 1 THEN 1 ELSE n)
             IN  IF Contains(q, symptom) THEN RAdd(frac, SubstringFloor)
                 ELSE frac
        ELSE RMax(jaccard_similarity(q, symptom),
                  RMul(SequenceRatio(q, symptom), SeqDiscount))

\* Score with the substring bonus overwriting the fraction.
ScoreFloorOverwrites(q, symptom) ==
    LET symptom_tokens == Tokens(symptom)
        ut_tokens == Tokens(q)
        common == symptom_tokens \cap ut_tokens
        n == Cardinality(symptom_tokens)
    IN  IF common # {}
        THEN IF Contains(q, symptom) THEN SubstringFloor
             ELSE Rat(Cardinality(common), IF n < 1 THEN 1 ELSE n)
        ELSE RMax(jaccard_similarity(q, symptom),
                  RMul(SequenceRatio(q, symptom), SeqDiscount))

\* The score of one candidate: the body of the for loop, lines 128-136.
Score(q, symptom) ==
    LET symptom_tokens == Tokens(symptom)
        ut_tokens == Tokens(q)
        common == symptom_tokens \cap ut_tokens
        n == Cardinality(symptom_tokens)
    IN  IF common # {}
        THEN LET frac == Rat(Cardinality(common), IF n < 1 THEN 1 ELSE n)
             IN  IF Contains(q, symptom) THEN RMax(frac, SubstringFloor)
                 ELSE frac
        ELSE RMax(jaccard_similarity(q, symptom),
                  RMul(SequenceRatio(q, symptom), SeqDiscount))

\* The early return without its test of the query.
EarlyReturnTableOnly(q, table) == table = <<>>

\* "not user_text or not rows"
EarlyReturn(q, table) == q = None \/ q = <<>> \/ table = <<>>

\* The comparison against 0.0 instead of best_score.
ReplacesAboveZero(score, current) == RLt(Zero, score)

\* The comparison with >= instead of >.
ReplacesOnTie(score, current) == RLe(current, score)

\* "score > best_score"
Replaces(score, current) == RLt(current, score)

\* The threshold with > instead of >=.
AcceptsStrict(score, threshold) == RLt(threshold, score)

\* "best_score >= min_score"
Accepts(score, threshold) == RLe(threshold, score)

\* Lines 119-123: the early return, or the set-up of the loop.
Enter ==
    /\ mpc = "idle"
    /\ IF EarlyReturn(user_text, rows)
       THEN /\ ret' = <<0, Zero>>
            /\ mpc' = "done"
            /\ UNCHANGED <<ut, idx, scores, best, best_score>>
       ELSE /\ ut' = normalize_text(user_text)
            /\ best' = 0
            /\ best_score' = Zero
            /\ idx' = 0
            /\ scores' = <<>>
            /\ mpc' = "loop"
            /\ ret' = None
    /\ UNCHANGED <<host, hpc, text, out, user_text, rows, min_score, prev,
                   env, shown>>

\* Lines 124-138: one turn of the for loop.
Iterate ==
    /\ mpc = "loop"
    /\ idx < Len(rows)
    /\ LET symptom == rows[idx + 1].symptom_norm
       IN  IF symptom = <<>>
           THEN /\ scores' = Append(scores, None)
                /\ UNCHANGED <<best, best_score>>
           ELSE LET score == Score(ut, symptom)
                IN  /\ scores' = Append(scores, score)
                    /\ IF Replaces(score, best_score)
                       THEN best' = idx + 1 /\ best_score' = score
                       ELSE UNCHANGED <<best, best_score>>
    /\ idx' = idx + 1
    /\ UNCHANGED <<host, hpc, text, out, user_text, rows, min_score, mpc, ut,
                   ret, prev, env, shown>>

\* Line 139: the threshold.
Return ==
    /\ mpc = "loop"
    /\ idx = Len(rows)
    /\ ret' = IF Accepts(best_score, min_score) THEN <<best, best_score>>
              ELSE <<0, best_score>>
    /\ mpc' = "done"
    /\ UNCHANGED <<host, hpc, text, out, user_text, rows, min_score, ut, idx,
                   scores, best, best_score, prev, env, shown>>

\* ------------------------------------------------------------------- inputs

\* The symptom cells a CSV file may hold.
CellFever ==
    <<" ","F","e","v","e","r","!"," ">>

CellSoreThroat ==
    <<"s","o","r","e"," ","t","h","r","o","a","t">>

CellDryCough ==
    <<"D","r","y"," ","C","o","u","g","h">>

CellLossOfSmell ==
    <<"l","o","s","s"," ","o","f"," ","s","m","e","l","l"," ","a","n","d",
      " ","t","a","s","t","e"," ","w","i","t","h"," ","c","o","u","g","h">>

QueryPunct ==
    <<"!","!","!">>

QueryHeadache ==
    <<"I"," ","h","a","v","e"," ","a"," ","h","e","a","d","a","c","h","e">>

QueryStomach ==
    <<"s","t","o","m","a","c","h"," ","h","u","r","t","s">>

QueryBrokenArm ==
    <<"b","r","o","k","e","n"," ","a","r","m">>

QueryZzzz ==
    <<"z","z","z","z">>

QueryCough ==
    <<"c","o","u","g","h">>

QuerySoreCough ==
    <<"s","o","r","e"," ","c","o","u","g","h">>

QuerySoreThroats ==
    <<"M","y"," ","s","o","r","e"," ","t","h","r","o","a","t","s">>

QueryFever ==
    <<"f","e","v","e","r">>


SymptomCells ==
    {<<>>, CellFever, CellSoreThroat, CellDryCough, CellLossOfSmell}

\* The longest table read from a file.
MaxRows == 2

\* The tables find_best_match is called with: what read_symptom_csv loads
\* from a file of at most MaxRows lines, and the table of the tests.
Tables ==
    {read_symptom_csv(TRUE, cells) :
        cells \in UNION {[1..n -> SymptomCells] : n \in 0..MaxRows}}
    \cup {TestRows}

Queries ==
    {None, <<>>, QueryPunct, QueryHeadache, QueryStomach, QueryBrokenArm,
     QueryZzzz, QueryCough, QuerySoreCough, QuerySoreThroats, QueryFever}

MinScores == {<<-1, 2>>, Zero, DefaultMinScore, <<1, 2>>}

\* No collaborator takes part.
NoEnv == [csv |-> "none"]

\* ------------------------------------------------- find_best_match, called

\* A direct call find_best_match(user_text, rows, min_score), as the tests
\* make it.
Init ==
    /\ host = "direct"
    /\ hpc = "call"
    /\ user_text \in Queries
    /\ rows \in Tables
    /\ min_score \in MinScores
    /\ mpc = "idle"
    /\ text = None
    /\ out = <<>>
    /\ ut = None
    /\ idx = 0
    /\ scores = <<>>
    /\ best = 0
    /\ best_score = Zero
    /\ ret = None
    /\ prev = <<>>
    /\ env = NoEnv
    /\ shown = <<>>

Next == Enter \/ Iterate \/ Return

Spec == Init /\ [][Next]_vars

\* ------------------------------------------------ what the claims speak of

\* The candidates: the rows with a non-empty normalized key-phrase.
Cand == {k \in 1..Len(rows) : rows[k].symptom_norm # <<>>}

\* find_best_match has returned from a call that passed the early return.
Scanned == mpc = "done" /\ user_text # None /\ user_text # <<>> /\ rows # <<>>

RSetMax(S) == CHOOSE x \in S : \A y \in S : RLe(y, x)

InUnit(x) == RLe(Zero, x) /\ RLe(x, One)

\* The highest of the scores the loop computed (0 when it computed none).
TopScore ==
    IF Cand = {} THEN Zero ELSE RSetMax({scores[k] : k \in Cand})

\* The candidates that attain it.
TopRows == {k \in Cand : scores[k] = TopScore}

\* |S_tok /\ Q_tok| / |S_tok| of row k against the normalized query.
Fraction(k) ==
    LET s == Tokens(rows[k].symptom_norm)
        q == Tokens(normalize_text(user_text))
    IN  Rat(Cardinality(s \cap q), Cardinality(s))

SharesToken(k) ==
    Tokens(rows[k].symptom_norm) \cap Tokens(normalize_text(user_text)) # {}

Headache == <<"h","e","a","d","a","c","h","e">>
StomachPain == <<"s","t","o","m","a","c","h"," ","p","a","i","n">>

\* C1 (as stated): on the table of the tests with the default min_score, the
\* queries "broken arm" and "zzzz" both get no record, every candidate
\* scoring below 0.15.
C1_NoMatchOnTestTable ==
    (/\ mpc = "done"
     /\ rows = TestRows
     /\ min_score = DefaultMinScore
     /\ user_text \in {QueryBrokenArm, QueryZzzz})
    => /\ ret[1] = 0
       /\ \A k \in Cand : RLt(scores[k], DefaultMinScore)

\* C2 (as stated): on the table of the tests with the default min_score,
\* "I have a headache" gets "headache" and "stomach hurts" gets "stomach
\* pain"; and whenever a record shares a token with the query and its
\* fraction |S /\ Q| / |S| is strictly above every other record's score, that
\* record is returned.
C2_Original ==
    (Scanned /\ min_score = DefaultMinScore)
    => /\ (rows = TestRows /\ user_text = QueryHeadache)
            => (ret[1] # 0 /\ rows[ret[1]].symptom = Headache)
       /\ (rows = TestRows /\ user_text = QueryStomach)
            => (ret[1] # 0 /\ rows[ret[1]].symptom = StomachPain)
       /\ \A k \in Cand :
            (/\ SharesToken(k)
             /\ \A j \in Cand \ {k} : RLt(scores[j], Fraction(k)))
            => ret[1] = k

\* C2 (amended): the same, the general part for a fraction that reaches
\* min_score.
C2_BestFractionReturned ==
    (Scanned /\ min_score = DefaultMinScore)
    => /\ (rows = TestRows /\ user_text = QueryHeadache)
            => (ret[1] # 0 /\ rows[ret[1]].symptom = Headache)
       /\ (rows = TestRows /\ user_text = QueryStomach)
            => (ret[1] # 0 /\ rows[ret[1]].symptom = StomachPain)
       /\ \A k \in Cand :
            (/\ SharesToken(k)
             /\ RLe(min_score, Fraction(k))
             /\ \A j \in Cand \ {k} : RLt(scores[j], Fraction(k)))
            => ret[1] = k

C2_Witness ==
    /\ Scanned /\ min_score = DefaultMinScore
    /\ rows = TestRows /\ user_text = QueryStomach
    /\ ret[1] = 2
    /\ ret[2] = Fraction(2)

\* C3 (as stated): for a non-empty query and table and any min_score, a
\* record is returned exactly when the highest candidate score is >=
\* min_score, that record attains the highest score, and the returned score
\* is the highest score.
C3_Original ==
    (Scanned /\ Cand # {})
    => /\ (ret[1] # 0) <=> RLe(min_score, TopScore)
       /\ ret[1] # 0 => ret[1] \in TopRows
       /\ ret[2] = TopScore

\* C3 (amended): a record is returned exactly when the highest candidate
\* score is above 0 and >= min_score; that record attains the highest score;
\* the returned score is the highest score (0 when there is no candidate),
\* also on rejection.
C3_ReturnedIffPositiveTopReachesMin ==
    Scanned
    => /\ (ret[1] # 0) <=> (RLt(Zero, TopScore) /\ RLe(min_score, TopScore))
       /\ ret[1] # 0 => ret[1] \in TopRows
       /\ ret[2] = TopScore
       /\ \A k \in Cand :
            scores[k] = Score(normalize_text(user_text), rows[k].symptom_norm)

\* A rejection that keeps its score: no record, and a score above 0.
C3_Witness ==
    /\ Scanned
    /\ Len(rows) >= 2
    /\ ret[1] = 0
    /\ RLt(Zero, ret[2])
    /\ RLt(ret[2], min_score)

\* C6: an empty or absent query, or an empty table, returns (None, 0.0) and
\* scores no record.
C6_EarlyReturn ==
    (mpc = "done" /\ (user_text = None \/ user_text = <<>> \/ Len(rows) = 0))
    => /\ ret = <<0, Zero>>
       /\ scores = <<>>
       /\ ut = None

C6_Witness ==
    /\ mpc = "done"
    /\ user_text = <<>>
    /\ Len(rows) = 3
    /\ ret = <<0, Zero>>

\* C7 (as stated): when two or more records attain the highest score and it
\* is >= min_score, the earliest of them is returned.
C7_Original ==
    (Scanned /\ Cardinality(TopRows) >= 2 /\ RLe(min_score, TopScore))
    => ret[1] = SetMin(TopRows)

\* C7 (amended): when two or more records attain the highest score, and it
\* is above 0 and >= min_score, the earliest of them is returned; and at
\* every turn of the loop the current best is the earliest row that attains
\* the highest score seen so far (none while that score is 0), so a later
\* row replaces it only with a strictly higher score.
C7_FirstSeenWins ==
    /\ (Scanned /\ Cardinality(TopRows) >= 2
          /\ RLt(Zero, TopScore) /\ RLe(min_score, TopScore))
       => ret[1] = SetMin(TopRows)
    /\ (mpc = "loop" \/ Scanned)
       => LET seen == {k \in 1..idx : rows[k].symptom_norm # <<>>}
              top == IF seen = {} THEN Zero
                     ELSE RSetMax({scores[k] : k \in seen})
          IN  /\ best_score = top
              /\ best = IF top = Zero THEN 0
                        ELSE SetMin({k \in seen : scores[k] = top})

\* Two different rows tie at the top, and the first is returned.
C7_Witness ==
    /\ Scanned
    /\ Cardinality(TopRows) >= 2
    /\ \E j, k \in TopRows : rows[j] # rows[k]
    /\ ret[1] = SetMin(TopRows)
    /\ ret[1] # 0

\* C9: every score computed for a candidate, the running best score and the
\* returned score lie in [0, 1].
C9_ScoresInUnitInterval ==
    /\ \A k \in 1..Len(scores) :
         rows[k].symptom_norm # <<>> => InUnit(scores[k])
    /\ InUnit(best_score)
    /\ mpc = "done" => InUnit(ret[2])

\* Both branches have scored: a row by token overlap with the substring
\* floor, another by max(jaccard, ratio * 0.8).
C9_Witness ==
    /\ Scanned
    /\ \E k \in Cand : SharesToken(k) /\ scores[k] = SubstringFloor
    /\ \E k \in Cand : ~SharesToken(k) /\ RLt(Zero, scores[k])

\* ------------------------------------------------- normalize_text, called

\* The characters of the strings normalize_text is called with: a lower-case
\* letter, an upper-case letter, a digit, a punctuation mark, and the
\* whitespace characters space, tab and newline.
NormAlphabet == {"a", "B", "7", "!", " ", "\t", "\n"}

\* The longest such string.
MaxTextLen == 4

NormInputs ==
    {None} \cup UNION {[1..n -> NormAlphabet] : n \in 0..MaxTextLen}

InitNorm ==
    /\ host = "norm"
    /\ hpc = "start"
    /\ text \in NormInputs
    /\ out = <<>>
    /\ user_text = None
    /\ rows = <<>>
    /\ min_score = DefaultMinScore
    /\ mpc = "none"
    /\ ut = None
    /\ idx = 0
    /\ scores = <<>>
    /\ best = 0
    /\ best_score = Zero
    /\ ret = None
    /\ prev = <<>>
    /\ env = NoEnv
    /\ shown = <<>>

\* normalize_text(text)
Normalize ==
    /\ host = "norm"
    /\ out = <<>>
    /\ out' = <<normalize_text(text)>>
    /\ UNCHANGED <<host, hpc, text, user_text, rows, min_score, mpc, ut, idx,
                   scores, best, best_score, ret, prev, env, shown>>

\* normalize_text applied to its own result.
Renormalize ==
    /\ host = "norm"
    /\ Len(out) = 1
    /\ out' = Append(out, normalize_text(out[1]))
    /\ UNCHANGED <<host, hpc, text, user_text, rows, min_score, mpc, ut, idx,
                   scores, best, best_score, ret, prev, env, shown>>

\* read_symptom_csv on a file of one line whose symptom cell is text.
LoadCsv ==
    /\ host = "norm"
    /\ hpc = "start"
    /\ rows' = read_symptom_csv(TRUE, <<text>>)
    /\ hpc' = "loaded"
    /\ UNCHANGED <<host, text, out, user_text, min_score, mpc, ut, idx,
                   scores, best, best_score, ret, prev, env, shown>>

NextNorm == Normalize \/ Renormalize \/ LoadCsv

SpecNorm == InitNorm /\ [][NextNorm]_vars

\* C4: normalize_text is idempotent, on every string, the empty string and
\* None; and the symptom_norm of a loaded record is a fixed point of it.
C4_NormalizeIdempotent ==
    /\ Len(out) = 2 => out[2] = out[1]
    /\ \A k \in 1..Len(rows) :
         normalize_text(rows[k].symptom_norm) = rows[k].symptom_norm

\* A string that normalization changes has been normalized twice.
C4_Witness ==
    /\ Len(out) = 2
    /\ text # None
    /\ out[1] # text
    /\ Len(out[1]) >= 3
    /\ Len(rows) = 1

\* C5: the output of normalize_text holds only a-z, 0-9 and the space, does
\* not start or end with a space and has no two spaces in a row.
C5_NormalizedShape ==
    Len(out) >= 1
    => LET o == out[1]
       IN  /\ Range(o) \subseteq Range(LowerLetters) \cup Digits \cup {" "}
           /\ o # <<>> => (o[1] # " " /\ o[Len(o)] # " ")
           /\ \A k \in 1..(Len(o) - 1) : ~(o[k] = " " /\ o[k + 1] = " ")

\* An input with an upper-case letter, a punctuation mark and a run of
\* whitespace between two words.
C5_Witness ==
    /\ Len(out) >= 1
    /\ text = <<"B", "!", "\t", "7">>
    /\ out[1] = <<"b", " ", "7">>

\* ------------------------------------- the key-phrase appended to the query

QueryThroatSore ==
    <<"t","h","r","o","a","t"," ","s","o","r","e">>


AppendQueries == (Queries \ {None}) \cup {QueryThroatSore}

InitAppend ==
    /\ host = "append"
    /\ hpc = "first"
    /\ user_text \in AppendQueries
    /\ rows \in Tables
    /\ min_score = DefaultMinScore
    /\ mpc = "idle"
    /\ text = None
    /\ out = <<>>
    /\ ut = None
    /\ idx = 0
    /\ scores = <<>>
    /\ best = 0
    /\ best_score = Zero
    /\ ret = None
    /\ prev = <<>>
    /\ env = NoEnv
    /\ shown = <<>>

\* After find_best_match(q, rows): the call find_best_match(q + sep + S, rows),
\* S the normalized key-phrase of candidate k.
CallAppended(k, sep) ==
    /\ host = "append"
    /\ hpc = "first"
    /\ mpc = "done"
    /\ prev' = <<[scores |-> scores, k |-> k, sep |-> sep]>>
    /\ user_text' = user_text \o sep \o rows[k].symptom_norm
    /\ hpc' = "second"
    /\ mpc' = "idle"
    /\ ut' = None
    /\ idx' = 0
    /\ scores' = <<>>
    /\ best' = 0
    /\ best_score' = Zero
    /\ ret' = None
    /\ UNCHANGED <<host, text, out, rows, min_score, env, shown>>

AppendJoined == \E k \in Cand : CallAppended(k, <<>>)

AppendSpaced == \E k \in Cand : CallAppended(k, <<" ">>)

NextAppend == Enter \/ Iterate \/ Return \/ AppendJoined \/ AppendSpaced

SpecAppend == InitAppend /\ [][NextAppend]_vars

\* Both calls scored candidate k, and the second query holds its key-phrase.
Compared ==
    /\ host = "append" /\ hpc = "second" /\ mpc = "done"
    /\ prev[1].scores # <<>>
    /\ scores # <<>>
    /\ Contains(ut, rows[prev[1].k].symptom_norm)

\* C8 (as stated): appending the key-phrase S of a record to the query, with
\* or without a separating space, never lowers the score of that record.
C8_Original ==
    Compared => RLe(prev[1].scores[prev[1].k], scores[prev[1].k])

\* C8 (amended): appending the key-phrase S of a record to the query after a
\* separating space never lowers the score of that record.
C8_AppendSpacedNeverLowers ==
    (Compared /\ prev[1].sep = <<" ">>)
    => RLe(prev[1].scores[prev[1].k], scores[prev[1].k])

\* A record that scored full marks on its tokens alone, and whose key-phrase
\* was then appended after a space.
C8_Witness ==
    /\ Compared
    /\ prev[1].sep = <<" ">>
    /\ prev[1].scores[prev[1].k] = One
    /\ ~Contains(normalize_text(QueryThroatSore), rows[prev[1].k].symptom_norm)
    /\ user_text = QueryThroatSore \o <<" ">> \o rows[prev[1].k].symptom_norm

\* ------------------------------------------------------------ collaborators

\* What a wrapper hands back: a value, or an exception that left it.
Value(v) == [raised |-> FALSE, val |-> v]
Raised == [raised |-> TRUE, val |-> None]

\* process_with_translation without its try/except.
TranslationUnguarded(t, translator, reply) ==
    IF translator = "none" THEN Value(t)
    ELSE IF translator = "fails" THEN Raised
    ELSE Value(reply)

\* Lines 154-161: the text itself when the translate module is missing or the
\* call fails, else what the service replies.
process_with_translation(t, translator, reply) ==
    IF translator = "none" THEN Value(t)
    ELSE IF translator = "fails" THEN Value(t)
    ELSE Value(reply)

\* Lines 164-174: None when speech_recognition is missing or the capture or
\* the recognition fails, else the transcript.
speech_to_text(sr, heard) ==
    IF sr = "none" THEN Value(None)
    ELSE IF sr = "fails" THEN Value(None)
    ELSE Value(heard)

\* Lines 177-185: None when gtts is missing or the synthesis fails, else the
\* path of the file written.
text_to_speech(gtts) ==
    IF gtts = "none" THEN Value(None)
    ELSE IF gtts = "fails" THEN Value(None)
    ELSE Value(<<"output.mp3">>)

\* Lines 142-150, of the row index a match holds (0: no row).
format_result_row(k) ==
    IF k = 0 THEN <<"No matching symptom found.">>
    ELSE <<"Symptom: ">> \o rows[k].symptom

Show(kind, arg) == [kind |-> kind, arg |-> arg]

\* The call find_best_match(q, rows), with the default min_score.
Call(q) ==
    /\ user_text' = q
    /\ min_score' = DefaultMinScore
    /\ mpc' = "idle"
    /\ ut' = None
    /\ idx' = 0
    /\ scores' = <<>>
    /\ best' = 0
    /\ best_score' = Zero
    /\ ret' = None

NoCall ==
    UNCHANGED <<user_text, min_score, mpc, ut, idx, scores, best, best_score,
                ret>>

\* ------------------------------------------------------------- run_cli_mode

\* Lines 226-238: load the table; without rows say so and return; with a
\* query, or without a terminal, call find_best_match; else go to the prompt.
CliStart ==
    /\ host = "cli"
    /\ hpc = "start"
    /\ LET loaded == read_symptom_csv(env.csv = "present", env.cells)
           warned == IF env.csv = "present" THEN <<>>
                     ELSE <<Show("warning", <<"Symptom CSV not found">>)>>
       IN  /\ rows' = loaded
           /\ IF loaded = <<>>
              THEN /\ shown' = shown \o warned
                               \o <<Show("print", <<"No symptom data loaded.">>)>>
                   /\ hpc' = "end"
                   /\ NoCall
              ELSE IF text # None /\ text # <<>>
              THEN /\ shown' = shown \o warned
                   /\ hpc' = "wait"
                   /\ Call(text)
              ELSE IF ~env.tty
              THEN /\ shown' = shown \o warned
                               \o <<Show("print", <<"Interactive input not available.">>)>>
                   /\ hpc' = "wait"
                   /\ Call(<<"f","e","v","e","r">>)
              ELSE /\ shown' = shown \o warned
                   /\ hpc' = "prompt"
                   /\ NoCall
    /\ UNCHANGED <<host, text, out, prev, env>>

\* Lines 232 and 237: print the result and return.
CliPrint ==
    /\ host = "cli"
    /\ hpc = "wait"
    /\ mpc = "done"
    /\ shown' = Append(shown, Show("print", format_result_row(ret[1])))
    /\ hpc' = "end"
    /\ UNCHANGED <<host, text, out, user_text, rows, min_score, mpc, ut, idx,
                   scores, best, best_score, ret, prev, env>>

\* Lines 239-247: read a line; at the end of the input, or on exit or quit,
\* leave; else call find_best_match on the stripped line.
CliInput ==
    /\ host = "cli"
    /\ hpc = "prompt"
    /\ IF env.stdin = <<>>
       THEN /\ shown' = Append(shown, Show("print", <<"Exiting.">>))
            /\ hpc' = "end"
            /\ NoCall
            /\ UNCHANGED <<text, env>>
       ELSE LET line == Strip(Head(env.stdin))
            IN  /\ text' = line
                /\ env' = [env EXCEPT !.stdin = Tail(env.stdin)]
                /\ IF Lower(line) \in {<<"e","x","i","t">>, <<"q","u","i","t">>}
                   THEN hpc' = "end" /\ NoCall
                   ELSE hpc' = "wait_loop" /\ Call(line)
                /\ UNCHANGED shown
    /\ UNCHANGED <<host, out, rows, prev>>

\* Line 248: print the result and prompt again.
CliPrintLoop ==
    /\ host = "cli"
    /\ hpc = "wait_loop"
    /\ mpc = "done"
    /\ shown' = Append(shown, Show("print", format_result_row(ret[1])))
    /\ hpc' = "prompt"
    /\ prev' = Append(prev, [query |-> user_text, ret |-> ret])
    /\ UNCHANGED <<host, text, out, user_text, rows, min_score, mpc, ut, idx,
                   scores, best, best_score, ret, env>>

\* ------------------------------------------------------- run_streamlit_mode

\* Lines 190-199: without streamlit say so and return; else load the table
\* and read the form.
StStart ==
    /\ host = "streamlit"
    /\ hpc = "start"
    /\ IF ~env.streamlit
       THEN /\ shown' = Append(shown, Show("error", <<"Streamlit not available.">>))
            /\ hpc' = "end"
            /\ UNCHANGED <<rows, text>>
       ELSE /\ rows' = read_symptom_csv(env.csv = "present", env.cells)
            /\ shown' = IF env.csv = "present" THEN shown
                        ELSE Append(shown, Show("warning", <<"Symptom CSV not found">>))
            /\ text' = env.typed
            /\ hpc' = "speak"
    /\ NoCall
    /\ UNCHANGED <<host, out, prev, env>>

\* Lines 200-204: the Speak button, when speech_recognition is there.
StSpeak ==
    /\ host = "streamlit"
    /\ hpc = "speak"
    /\ IF env.button /\ env.sr # "none"
       THEN LET spoken == speech_to_text(env.sr, env.heard)
            IN  IF spoken.raised
                THEN hpc' = "raised" /\ UNCHANGED <<text, shown>>
                ELSE IF spoken.val # None /\ spoken.val # <<>>
                THEN /\ text' = spoken.val
                     /\ shown' = Append(shown, Show("write", spoken.val))
                     /\ hpc' = "translate"
                ELSE hpc' = "translate" /\ UNCHANGED <<text, shown>>
       ELSE hpc' = "translate" /\ UNCHANGED <<text, shown>>
    /\ NoCall
    /\ UNCHANGED <<host, out, rows, prev, env>>

\* Lines 205-208: with a text, translate it and call find_best_match.
StTranslate ==
    /\ host = "streamlit"
    /\ hpc = "translate"
    /\ IF text # <<>>
       THEN LET translated == process_with_translation(text, env.translator, env.reply)
            IN  IF translated.raised
                THEN hpc' = "raised" /\ NoCall
                ELSE hpc' = "wait" /\ Call(translated.val)
       ELSE hpc' = "end" /\ NoCall
    /\ UNCHANGED <<host, text, out, rows, prev, env, shown>>

\* Lines 209-221: show the advice, its translation and its audio, or the
\* warning that nothing matched.
StShow ==
    /\ host = "streamlit"
    /\ hpc = "wait"
    /\ mpc = "done"
    /\ IF ret[1] # 0
       THEN LET result == format_result_row(ret[1])
                back == process_with_translation(result, env.translator, env.reply)
                mp3 == text_to_speech(env.gtts)
            IN  IF back.raised
                THEN /\ hpc' = "raised"
                     /\ shown' = Append(shown, Show("text_area", result))
                ELSE IF mp3.raised
                THEN /\ hpc' = "raised"
                     /\ shown' = shown \o <<Show("text_area", result),
                                            Show("success", back.val)>>
                ELSE /\ hpc' = "end"
                     /\ shown' = shown
                          \o <<Show("text_area", result), Show("success", back.val)>>
                          \o (IF mp3.val # None
                              THEN <<Show("audio", mp3.val)>> ELSE <<>>)
       ELSE /\ hpc' = "end"
            /\ shown' = Append(shown, Show("warning", <<"No confident match found.">>))
    /\ UNCHANGED <<host, text, out, user_text, rows, min_score, mpc, ut, idx,
                   scores, best, best_score, ret, prev, env>>

\* ----------------------------------------------------------- the two hosts

\* The lines standard input may hold, and how many.
StdinLines == {<<"E","x","i","t"," ">>, <<"f","e","v","e","r">>, <<>>}
MaxStdin == 2

\* The files the hosts may find: one of two lines, an empty one.
CsvFiles == {<<CellFever, CellDryCough>>, <<>>}

Availability == {"none", "fails", "ok"}

CliEnvs ==
    [csv : {"missing", "present"},
     cells : CsvFiles,
     query : {None, <<>>, QueryCough, QueryZzzz},
     tty : BOOLEAN,
     stdin : UNION {[1..n -> StdinLines] : n \in 0..MaxStdin}]

StreamlitEnvs ==
    [csv : {"missing", "present"},
     cells : {<<CellFever, CellDryCough>>},
     streamlit : BOOLEAN,
     button : BOOLEAN,
     sr : Availability,
     translator : Availability,
     gtts : Availability,
     typed : {<<>>, QueryFever, QueryZzzz},
     heard : {<<>>, QueryCough},
     reply : {QueryFever, QueryZzzz}]

InitHost ==
    /\ \/ /\ host = "cli"
          /\ env \in CliEnvs
          /\ text = env.query
       \/ /\ host = "streamlit"
          /\ env \in StreamlitEnvs
          /\ text = <<>>
    /\ hpc = "start"
    /\ out = <<>>
    /\ user_text = None
    /\ rows = <<>>
    /\ min_score = DefaultMinScore
    /\ mpc = "none"
    /\ ut = None
    /\ idx = 0
    /\ scores = <<>>
    /\ best = 0
    /\ best_score = Zero
    /\ ret = None
    /\ prev = <<>>
    /\ shown = <<>>

NextHost ==
    \/ CliStart \/ CliPrint \/ CliInput \/ CliPrintLoop
    \/ StStart \/ StSpeak \/ StTranslate \/ StShow
    \/ Enter \/ Iterate \/ Return

SpecHost == InitHost /\ [][NextHost]_vars

\* A non-empty query reached the flow: the query argument of run_cli_mode, or
\* the text typed or spoken into the form of run_streamlit_mode.
QuerySupplied ==
    \/ host = "cli" /\ env.query # None /\ env.query # <<>>
    \/ host = "streamlit" /\ env.streamlit /\ text # <<>>

\* find_best_match was called on the query and has returned, and its result
\* is what the flow showed last.
MatchReported ==
    /\ mpc = "done"
    /\ ret # None
    /\ shown # <<>>
    /\ IF host = "cli"
       THEN /\ user_text = env.query
            /\ shown[Len(shown)] = Show("print", format_result_row(ret[1]))
       ELSE /\ user_text \in {text, env.reply}
            /\ IF ret[1] = 0
               THEN shown[Len(shown)]
                      = Show("warning", <<"No confident match found.">>)
               ELSE \E k \in 1..Len(shown) :
                      shown[k] = Show("text_area", format_result_row(ret[1]))

\* The CSV file is there and holds no line: no collaborator failed, and the
\* table is empty all the same.
EmptyFile == env.csv = "present" /\ env.cells = <<>>

\* C10 (as stated): in both flows, with a non-empty query, no collaborator
\* failure (the CSV file not found among them) raises out of the flow, and
\* the flow ends only after find_best_match ran on the query and its result
\* was reported.
C10_Original ==
    /\ hpc # "raised"
    /\ (hpc = "end" /\ QuerySupplied /\ ~EmptyFile) => MatchReported

\* C10 (amended): no collaborator failure raises out of either flow;
\* run_streamlit_mode, with a non-empty query, ends only after find_best_match
\* ran on it and its result was reported; run_cli_mode does so when the table
\* it loaded has rows, and with no rows (the CSV file not found, or empty) it
\* prints "No symptom data loaded." and returns without calling
\* find_best_match.
C10_FailuresSkipOptionalSteps ==
    /\ hpc # "raised"
    /\ (hpc = "end" /\ QuerySupplied /\ host = "streamlit") => MatchReported
    /\ (hpc = "end" /\ QuerySupplied /\ host = "cli")
       => IF rows # <<>> THEN MatchReported
          ELSE /\ mpc = "none"
               /\ ret = None
               /\ shown[Len(shown)] = Show("print", <<"No symptom data loaded.">>)

\* Speech recognition, translation and synthesis all fail, and the typed
\* query is matched and its advice shown.
C10_Witness ==
    /\ host = "streamlit"
    /\ hpc = "end"
    /\ env.button
    /\ env.sr = "fails"
    /\ env.translator = "fails"
    /\ env.gtts = "fails"
    /\ text = QueryFever
    /\ MatchReported
    /\ ret[1] = 1

=============================================================================
